---- MODULE Spec2Model ----
(***************************************************************************)
(* A model of src/src/nor_flash.rs: the NOR flash validators, the RAM      *)
(* backed MockFlash device, and the two read-modify-write adapters          *)
(* RmwNorFlashStorage and RmwMultiwriteNorFlashStorage.                     *)
(*                                                                         *)
(* Addresses are 0-based as in the source; byte sequences are TLA+          *)
(* sequences, so element i (0-based) of a slice is s[i + 1].                *)
(* The device geometry is an instantiation of MockFlash's const generic     *)
(* parameters that keeps the conventions of the test device (READ_SIZE =   *)
(* WRITE_SIZE > 1, ERASE_SIZE a multiple of WRITE_SIZE, CAPACITY a          *)
(* multiple of ERASE_SIZE) with fewer words per page.                       *)
(***************************************************************************)
EXTENDS Integers, Sequences, FiniteSets, TLC

\* ---------------------------------------------------------------- bounds
NumPages == 2
MaxLen == 5
ExtraBuf == 2
MaxFault == 6

\* the most calls a NorFlashStats counts
MaxCalls == 3

\* ------------------------------------------------------- device geometry
READ_SIZE == 2
WRITE_SIZE == 2
ERASE_SIZE == 4
ERASE_BYTE == 255
CAPACITY == NumPages * ERASE_SIZE

\* an offset or a length far beyond the device, as a caller's u32 or usize can be
Huge == 2^29

VARIABLES
    data,          \* MockFlash.data, a function 0..CAPACITY-1 -> byte
    MULTI_WRITE,   \* MockFlash's MULTI_WRITE parameter (fixed per behaviour)
    failAt,        \* 0, or the index of the device call of an adapter op that fails with Other
    powerCut,      \* 0, or the index of the device call of an adapter op before which power is lost
    shadow,        \* a plain byte array to which a sequence of writes is applied as overwrites
    stats,         \* the six counters of a NorFlashStats wrapped around the device
    adapter,       \* "none" | "Rmw" | "RmwMultiwrite": the adapter borrowing the device
    merge_buffer,  \* the adapter's merge buffer
    pc,            \* "device" | "prepared" | "adapter" | "done" | "panic"
    op,            \* the last operation: a record naming it and its arguments
    result,        \* its result: "Ok" | "NotAligned" | "OutOfBounds" | "DirtyWrite" | "Other" | "panic",
                   \* or "power_loss" when the operation never returned
    out,           \* the caller's buffer after a read
    log,           \* the device calls the last adapter operation issued, in order
    pre            \* data before the last operation

vars == <<data, MULTI_WRITE, failAt, powerCut, shadow, stats, adapter, merge_buffer, pc, op, result, out, log, pre>>

Addr == 0..(CAPACITY - 1)

Min(a, b) == IF a < b THEN a ELSE b

Max(a, b) == IF a > b THEN a ELSE b

\* *a & *b on u8 (0xff has every bit of a u8)
RECURSIVE BitAnd(_, _)
BitAnd(a, b) ==
    IF a = 0 \/ b = 0 THEN 0
    ELSE IF a = 255 THEN b
    ELSE IF b = 255 THEN a
    ELSE 2 * BitAnd(a \div 2, b \div 2) + (a % 2) * (b % 2)

\* check_slice as it would be if only the offset's alignment were checked
CheckSliceOffsetOnly(align, offset, length) ==
    IF length > CAPACITY \/ offset > CAPACITY - length THEN "OutOfBounds"
    ELSE IF offset % align # 0 THEN "NotAligned"
    ELSE "Ok"

\* check_slice as it would be if the alignment were checked before the bounds
CheckSliceAlignFirst(align, offset, length) ==
    IF offset % align # 0 \/ length % align # 0 THEN "NotAligned"
    ELSE IF length > CAPACITY \/ offset > CAPACITY - length THEN "OutOfBounds"
    ELSE "Ok"

\* ------------------------------------------------------------ validators
check_slice(align, offset, length) ==
    IF length > CAPACITY \/ offset > CAPACITY - length THEN "OutOfBounds"
    ELSE IF offset % align # 0 \/ length % align # 0 THEN "NotAligned"
    ELSE "Ok"

check_read(offset, length) == check_slice(READ_SIZE, offset, length)

check_write(offset, length) == check_slice(WRITE_SIZE, offset, length)

\* the erase validation as it would be with the alignment tested first
CheckEraseAlignFirst(from, to) ==
    IF from % ERASE_SIZE # 0 \/ to % ERASE_SIZE # 0 THEN "NotAligned"
    ELSE IF from > to \/ to > CAPACITY THEN "OutOfBounds"
    ELSE "Ok"

check_erase(from, to) ==
    IF from > to \/ to > CAPACITY THEN "OutOfBounds"
    ELSE IF from % ERASE_SIZE # 0 \/ to % ERASE_SIZE # 0 THEN "NotAligned"
    ELSE "Ok"

\* ------------------------------------------------------------- MockFlash
\* MockFlash::default(): every byte erased
MockDefault == [a \in Addr |-> ERASE_BYTE]

\* MockFlash::read: the result and the bytes copied into the caller's buffer
MockRead(d, offset, length) ==
    LET r == check_read(offset, length) IN
    [res |-> r,
     bytes |-> IF r = "Ok" THEN [i \in 1..length |-> d[offset + i - 1]] ELSE <<>>]

\* the loop of MockFlash::write from element i (1-based) of bytes on
RECURSIVE MockWriteLoop(_, _, _, _, _)
MockWriteLoop(d, multi, offset, bytes, i) ==
    IF i > Len(bytes) \/ offset + i - 1 >= CAPACITY
    THEN [res |-> "Ok", data |-> d]
    ELSE LET a == offset + i - 1
             dst == d[a]
             src == bytes[i]
         IN IF ~multi /\ dst # ERASE_BYTE
            THEN [res |-> "DirtyWrite", data |-> d]
            ELSE LET nd == [d EXCEPT ![a] = BitAnd(dst, src)]
                 IN IF src # nd[a]
                    THEN [res |-> "DirtyWrite", data |-> nd]
                    ELSE MockWriteLoop(nd, multi, offset, bytes, i + 1)

\* the write as it would be if the device never required erased bytes
MockWriteUnchecked(d, multi, offset, bytes) ==
    LET r == check_write(offset, Len(bytes)) IN
    IF r # "Ok" THEN [res |-> r, data |-> d]
    ELSE MockWriteLoop(d, TRUE, offset, bytes, 1)

\* MockFlash::write
MockWrite(d, multi, offset, bytes) ==
    LET r == check_write(offset, Len(bytes)) IN
    IF r # "Ok" THEN [res |-> r, data |-> d]
    ELSE MockWriteLoop(d, multi, offset, bytes, 1)

\* the erase as it would be if it ran on to the end of the device
MockEraseToEnd(d, from, to) ==
    LET r == check_erase(from, to) IN
    IF r # "Ok" THEN [res |-> r, data |-> d]
    ELSE [res |-> "Ok",
          data |-> [a \in Addr |-> IF from <= a THEN ERASE_BYTE ELSE d[a]]]

\* the erase as it would be if it left alone the bytes already erased and
\* cleared the rest of the range
MockEraseToZero(d, from, to) ==
    LET r == check_erase(from, to) IN
    IF r # "Ok" THEN [res |-> r, data |-> d]
    ELSE [res |-> "Ok",
          data |-> [a \in Addr |->
                      IF from <= a /\ a < to /\ d[a] # ERASE_BYTE THEN 0 ELSE d[a]]]

\* MockFlash::erase
MockErase(d, from, to) ==
    LET r == check_erase(from, to) IN
    IF r # "Ok" THEN [res |-> r, data |-> d]
    ELSE [res |-> "Ok",
          data |-> [a \in Addr |-> IF from <= a /\ a < to THEN ERASE_BYTE ELSE d[a]]]

\* -------------------------------------------- the device as the adapters see it
\* The state an adapter operation threads through its device calls:
\* the device contents, the merge buffer, the calls issued so far and the
\* result of the last call.
Machine(d, buf) == [data |-> d, buf |-> buf, log |-> <<>>, res |-> "Ok"]

LogEntry(name, a, b, bytes, res) ==
    [call |-> name, a |-> a, b |-> b, bytes |-> bytes, res |-> res]

\* the device call about to be issued is the one that fails (S::Error of kind Other)
Faulty(m) == failAt # 0 /\ Len(m.log) + 1 = failAt

\* power is lost before the device call about to be issued
PowerLost(m) == powerCut # 0 /\ Len(m.log) + 1 = powerCut

\* the write stops here: nothing more reaches the device
Interrupted(m) == [m EXCEPT !.res = "power_loss"]

\* the read as it would be if the bytes read never reached the merge buffer
StorageReadStale(m, offset, length) ==
    IF PowerLost(m) THEN Interrupted(m)
    ELSE IF Faulty(m)
    THEN [m EXCEPT !.res = "Other",
                   !.log = Append(@, LogEntry("read", offset, length, <<>>, "Other"))]
    ELSE LET r == MockRead(m.data, offset, length) IN
         [m EXCEPT !.res = r.res,
                   !.log = Append(@, LogEntry("read", offset, length, <<>>, r.res))]

\* self.storage.read(offset, &mut self.merge_buffer[..length])
StorageRead(m, offset, length) ==
    IF PowerLost(m) THEN Interrupted(m)
    ELSE IF Faulty(m)
    THEN [m EXCEPT !.res = "Other",
                   !.log = Append(@, LogEntry("read", offset, length, <<>>, "Other"))]
    ELSE LET r == MockRead(m.data, offset, length) IN
         [m EXCEPT !.res = r.res,
                   !.log = Append(@, LogEntry("read", offset, length, <<>>, r.res)),
                   !.buf = IF r.res = "Ok"
                           THEN [i \in 1..Len(m.buf) |->
                                    IF i <= length THEN r.bytes[i] ELSE m.buf[i]]
                           ELSE @]

\* self.storage.erase(from, to)
StorageErase(m, from, to) ==
    IF PowerLost(m) THEN Interrupted(m)
    ELSE IF Faulty(m)
    THEN [m EXCEPT !.res = "Other",
                   !.log = Append(@, LogEntry("erase", from, to, <<>>, "Other"))]
    ELSE LET r == MockErase(m.data, from, to) IN
         [m EXCEPT !.res = r.res,
                   !.data = r.data,
                   !.log = Append(@, LogEntry("erase", from, to, <<>>, r.res))]

\* self.storage.write(offset, bytes)
StorageWrite(m, offset, bytes) ==
    IF PowerLost(m) THEN Interrupted(m)
    ELSE IF Faulty(m)
    THEN [m EXCEPT !.res = "Other",
                   !.log = Append(@, LogEntry("write", offset, Len(bytes), bytes, "Other"))]
    ELSE LET r == MockWrite(m.data, MULTI_WRITE, offset, bytes) IN
         [m EXCEPT !.res = r.res,
                   !.data = r.data,
                   !.log = Append(@, LogEntry("write", offset, Len(bytes), bytes, r.res))]

\* ------------------------------------------------------------------ Page
PageNew(index, size) == [start |-> index * size, size |-> size]

\* the end of a page as it would be if it were its last address
PageEndInclusive(p) == p.start + p.size - 1

PageEnd(p) == p.start + p.size

\* the containment test as it would be with the end address inside the page
PageContainsInclusive(p, address) == (p.start <= address) /\ (PageEnd(p) >= address)

PageContains(p, address) == (p.start <= address) /\ (PageEnd(p) > address)

\* let last_page = self.storage.capacity() / S::ERASE_SIZE;
\* (0..last_page as u32).map(move |i| Page::new(i, S::ERASE_SIZE))
PagesOf(capacity) ==
    LET last_page == capacity \div ERASE_SIZE IN
    [i \in 1..last_page |-> PageNew(i - 1, ERASE_SIZE)]

\* the pages of the device of the model
Pages == PagesOf(CAPACITY)

\* ------------------------------------------------- overlap decomposition
\* The triples (data, page, addr) of the pages from index i on: pages ending
\* at or before base are skipped, the walk stops at a page starting at or
\* beyond base + len, and a page yields the part of bytes inside it.
RECURSIVE OverlapsFrom(_, _, _, _)
OverlapsFrom(pages, bytes, base, i) ==
    IF i > Len(pages) THEN <<>>
    ELSE LET p == pages[i]
             lo == Max(p.start, base)
             hi == Min(PageEnd(p), base + Len(bytes))
         IN IF PageEnd(p) <= base THEN OverlapsFrom(pages, bytes, base, i + 1)
            ELSE IF p.start >= base + Len(bytes) THEN <<>>
            ELSE IF lo >= hi THEN OverlapsFrom(pages, bytes, base, i + 1)
            ELSE <<[data |-> SubSeq(bytes, lo - base + 1, hi - base),
                    page |-> p,
                    addr |-> lo]>>
                 \o OverlapsFrom(pages, bytes, base, i + 1)

Overlaps(pages, bytes, base) == OverlapsFrom(pages, bytes, base, 1)

\* ---------------------------------------------------- RmwNorFlashStorage
\* addr.saturating_sub(page.start)
OffsetIntoPage(t) == Max(t.addr - t.page.start, 0)

\* the merge as it would be without skip(offset_into_page)
MergeDataNoSkip(buf, offset_into_page, bytes) ==
    [i \in 1..Len(buf) |->
        IF i <= ERASE_SIZE /\ i <= Len(bytes) THEN bytes[i] ELSE buf[i]]

\* the merge as it would be if the data were ANDed into the buffer
MergeDataAnd(buf, offset_into_page, bytes) ==
    [i \in 1..Len(buf) |->
        IF i > offset_into_page /\ i <= ERASE_SIZE /\ i - offset_into_page <= Len(bytes)
        THEN BitAnd(buf[i], bytes[i - offset_into_page])
        ELSE buf[i]]

\* merge_buffer[..ERASE_SIZE].iter_mut().skip(offset_into_page).zip(data)
\*     .for_each(|(byte, input)| *byte = *input)
MergeData(buf, offset_into_page, bytes) ==
    [i \in 1..Len(buf) |->
        IF i > offset_into_page /\ i <= ERASE_SIZE /\ i - offset_into_page <= Len(bytes)
        THEN bytes[i - offset_into_page]
        ELSE buf[i]]

\* erase the page, merge the data into the buffer, write the page back
EraseMergeWrite(m, t) ==
    LET m2 == StorageErase(m, t.page.start, PageEnd(t.page)) IN
    IF m2.res # "Ok" THEN m2
    ELSE LET m3 == [m2 EXCEPT !.buf = MergeData(@, OffsetIntoPage(t), t.data)]
         IN StorageWrite(m3, t.page.start, SubSeq(m3.buf, 1, ERASE_SIZE))

\* the loop body as it would be if the page were erased before it is read
RmwPageEraseFirst(m, t) ==
    LET m1 == StorageErase(m, t.page.start, PageEnd(t.page)) IN
    IF m1.res # "Ok" THEN m1
    ELSE LET m2 == StorageRead(m1, t.page.start, ERASE_SIZE) IN
         IF m2.res # "Ok" THEN m2
         ELSE LET m3 == [m2 EXCEPT !.buf = MergeData(@, OffsetIntoPage(t), t.data)]
              IN StorageWrite(m3, t.page.start, SubSeq(m3.buf, 1, ERASE_SIZE))

\* the body of the loop of RmwNorFlashStorage::write for one triple
RmwPage(m, t) ==
    LET m1 == StorageRead(m, t.page.start, ERASE_SIZE) IN
    IF m1.res # "Ok" THEN m1 ELSE EraseMergeWrite(m1, t)

\* the loop as it would be if it went on to the remaining pages after an
\* error and returned the error at the end
RECURSIVE RmwLoopContinue(_, _, _)
RmwLoopContinue(m, triples, k) ==
    IF k > Len(triples) THEN [m EXCEPT !.res = "Ok"]
    ELSE LET n == RmwPage(m, triples[k])
             rest == RmwLoopContinue(n, triples, k + 1)
         IN IF n.res # "Ok" THEN [rest EXCEPT !.res = n.res] ELSE rest

\* the loop of RmwNorFlashStorage::write from triple k on
RECURSIVE RmwLoop(_, _, _)
RmwLoop(m, triples, k) ==
    IF k > Len(triples) THEN [m EXCEPT !.res = "Ok"]
    ELSE LET n == RmwPage(m, triples[k])
         IN IF n.res # "Ok" THEN n ELSE RmwLoop(n, triples, k + 1)

\* RmwNorFlashStorage::write
RmwWrite(m, offset, bytes) == RmwLoop(m, Overlaps(Pages, bytes, offset), 1)

\* ------------------------------------------ RmwMultiwriteNorFlashStorage
\* data.iter().zip(rhs.iter()).all(|(a, b)| *a & *b == *a)
IsSubset(bytes, rhs) ==
    \A j \in 1..Min(Len(bytes), Len(rhs)) : BitAnd(bytes[j], rhs[j]) = bytes[j]

\* data.len() % S::WRITE_SIZE + offset + data.len()
AlignedEnd(offset, length) == (length % WRITE_SIZE) + offset + length

\* merge_buffer[..aligned_end].fill(ERASE_BYTE);
\* merge_buffer[offset..offset + data.len()].copy_from_slice(data)
PadData(buf, offset, aligned_end, bytes) ==
    [i \in 1..Len(buf) |->
        IF i > offset /\ i <= offset + Len(bytes) THEN bytes[i - offset]
        ELSE IF i <= aligned_end THEN ERASE_BYTE
        ELSE buf[i]]

\* the direct write of the data of one triple, padded to WRITE_SIZE
DirectWrite(m, t) ==
    LET offset == t.addr % WRITE_SIZE
        aligned_end == AlignedEnd(offset, Len(t.data))
    IN IF aligned_end > Len(m.buf) THEN [m EXCEPT !.res = "panic"]
       ELSE LET m2 == [m EXCEPT !.buf = PadData(@, offset, aligned_end, t.data)]
            IN StorageWrite(m2, t.addr - offset, SubSeq(m2.buf, 1, aligned_end))

\* the body of the loop of RmwMultiwriteNorFlashStorage::write for one triple
MultiwritePage(m, t) ==
    LET m1 == StorageRead(m, t.page.start, ERASE_SIZE) IN
    IF m1.res # "Ok" THEN m1
    ELSE LET rhs == SubSeq(m1.buf, OffsetIntoPage(t) + 1, ERASE_SIZE)
         IN IF IsSubset(t.data, rhs) THEN DirectWrite(m1, t)
            ELSE EraseMergeWrite(m1, t)

\* the loop of RmwMultiwriteNorFlashStorage::write from triple k on
RECURSIVE MultiwriteLoop(_, _, _)
MultiwriteLoop(m, triples, k) ==
    IF k > Len(triples) THEN [m EXCEPT !.res = "Ok"]
    ELSE LET n == MultiwritePage(m, triples[k])
         IN IF n.res # "Ok" THEN n ELSE MultiwriteLoop(n, triples, k + 1)

\* RmwMultiwriteNorFlashStorage::write
MultiwriteWrite(m, offset, bytes) ==
    MultiwriteLoop(m, Overlaps(Pages, bytes, offset), 1)

\* MockFlash::capacity
StorageCapacity == CAPACITY

\* RmwNorFlashStorage::capacity and RmwMultiwriteNorFlashStorage::capacity
AdapterCapacity == StorageCapacity

\* the read as it would be if the adapter read whole READ_SIZE words around
\* the range and handed back the part asked for
AdapterReadAligned(m, offset, length) ==
    LET lo == offset - (offset % READ_SIZE)
        n == (offset - lo) + length + ((READ_SIZE - ((offset + length) % READ_SIZE)) % READ_SIZE)
        r == MockRead(m.data, lo, n)
    IN [res |-> r.res,
        bytes |-> IF r.res = "Ok" THEN SubSeq(r.bytes, offset - lo + 1, offset - lo + length)
                  ELSE <<>>,
        log |-> <<LogEntry("read", lo, n, <<>>, r.res)>>]

\* RmwNorFlashStorage::read and RmwMultiwriteNorFlashStorage::read
AdapterReadOp(m, offset, length) ==
    IF PowerLost(m) THEN [res |-> "power_loss", bytes |-> <<>>, log |-> <<>>]
    ELSE IF Faulty(m)
    THEN [res |-> "Other", bytes |-> <<>>,
          log |-> <<LogEntry("read", offset, length, <<>>, "Other")>>]
    ELSE LET r == MockRead(m.data, offset, length) IN
         [res |-> r.res, bytes |-> r.bytes,
          log |-> <<LogEntry("read", offset, length, <<>>, r.res)>>]

\* --------------------------------------------------------- NorFlashStats
\* NorFlashStats::from(storage)
StatsFrom ==
    [reads |-> 0, read |-> 0, writes |-> 0, written |-> 0, erases |-> 0, erased |-> 0]

\* if res.is_ok() { self.reads += 1; self.read += bytes.len() / S::READ_SIZE; }
StatsAfterRead(st, res, length) ==
    IF res = "Ok"
    THEN [st EXCEPT !.reads = @ + 1, !.read = @ + (length \div READ_SIZE)]
    ELSE st

\* the count of a write as it would be if it were taken before the result
\* is looked at
StatsAfterWriteAlways(st, res, length) ==
    [st EXCEPT !.writes = @ + 1, !.written = @ + (length \div WRITE_SIZE)]

\* if res.is_ok() { self.writes += 1; self.written += bytes.len() / S::WRITE_SIZE; }
StatsAfterWrite(st, res, length) ==
    IF res = "Ok"
    THEN [st EXCEPT !.writes = @ + 1, !.written = @ + (length \div WRITE_SIZE)]
    ELSE st

\* if res.is_ok() { self.erases += 1; self.erased += (to - from) as usize / S::ERASE_SIZE; }
StatsAfterErase(st, res, from, to) ==
    IF res = "Ok"
    THEN [st EXCEPT !.erases = @ + 1, !.erased = @ + ((to - from) \div ERASE_SIZE)]
    ELSE st

\* ---------------------------------------------------------------- inputs
Offsets == 0..(CAPACITY + 1)

Lengths == 0..MaxLen

\* the byte sequences callers pass: TEST_DATA[..n] (gen_test_data), a constant
\* sequence that clears the high nibble, and one alternating 0xf0 and 0xff
ReqPatterns == {"data", "low", "mix"}

\* the byte sequences of a sequence of writes: programmed low nibbles, and
\* bytes in the erased state, which only an overwrite can put back
SeqPatterns == {"low", "blank"}

TestData(pat, n) ==
    [j \in 1..n |->
        CASE pat = "data" -> j - 1
          [] pat = "low" -> 15
          [] pat = "blank" -> ERASE_BYTE
          [] OTHER -> IF j % 2 = 1 THEN 240 ELSE 255]

\* what a page holds before the operation: erased, a copy of TEST_DATA,
\* or every other byte programmed
PagePatterns == {"erased", "data", "mix"}

FillByte(pat, a) ==
    CASE pat = "erased" -> ERASE_BYTE
      [] pat = "data" -> a
      [] OTHER -> IF a % 2 = 0 THEN ERASE_BYTE ELSE 240

\* the lengths of the merge buffers callers supply
BufLens == {ERASE_SIZE - 1, ERASE_SIZE, ERASE_SIZE + ExtraBuf}

NoOp == [name |-> "none", a |-> 0, b |-> 0, bytes |-> <<>>]

Operation(name, a, b, bytes) == [name |-> name, a |-> a, b |-> b, bytes |-> bytes]

\* ------------------------------------------------------------------ Init
InitWith(faults, cuts) ==
    /\ data = MockDefault
    /\ MULTI_WRITE \in BOOLEAN
    /\ failAt \in faults
    /\ powerCut \in cuts
    /\ shadow = MockDefault
    /\ stats = StatsFrom
    /\ adapter = "none"
    /\ merge_buffer = <<>>
    /\ pc = "device"
    /\ op = NoOp
    /\ result = "Ok"
    /\ out = <<>>
    /\ log = <<>>
    /\ pre = MockDefault

\* a device that fails only as MockFlash does
Init == InitWith({0}, {0})

\* a device one of whose calls fails with an error of its own
InitFault == InitWith(1..MaxFault, {0})

\* a device that loses power before one of the calls of an adapter operation
InitPower == InitWith({0}, 1..MaxFault)

\* --------------------------------------------------------------- actions
\* DerefMut: the caller stores contents of its own in the device,
\* as in flash[..TEST_DATA.len()].copy_from_slice(&TEST_DATA)
Fill(choice) ==
    /\ pc = "device"
    /\ pre' = data
    /\ data' = [a \in Addr |-> FillByte(choice[a \div ERASE_SIZE], a)]
    /\ pc' = "prepared"
    /\ op' = Operation("fill", 0, CAPACITY, <<>>)
    /\ UNCHANGED <<MULTI_WRITE, failAt, powerCut, shadow, stats, adapter, merge_buffer, result, out, log>>

\* the construction as it would be without the test of the buffer length
NewUnchecked(kind, n) ==
    /\ pc \in {"device", "prepared"}
    /\ kind = "RmwMultiwrite" => MULTI_WRITE
    /\ op' = Operation("new", n, 0, <<>>)
    /\ pre' = data
    /\ pc' = "adapter"
    /\ result' = "Ok"
    /\ adapter' = kind
    /\ merge_buffer' = [i \in 1..n |-> 0]
    /\ UNCHANGED <<data, MULTI_WRITE, failAt, powerCut, shadow, stats, out, log>>

\* RmwNorFlashStorage::new and RmwMultiwriteNorFlashStorage::new with a
\* zeroed merge buffer of length n
New(kind, n) ==
    /\ pc \in {"device", "prepared"}
    /\ kind = "RmwMultiwrite" => MULTI_WRITE
    /\ op' = Operation("new", n, 0, <<>>)
    /\ pre' = data
    /\ IF n < ERASE_SIZE
       THEN /\ pc' = "panic"
            /\ result' = "panic"
            /\ UNCHANGED <<adapter, merge_buffer>>
       ELSE /\ pc' = "adapter"
            /\ result' = "Ok"
            /\ adapter' = kind
            /\ merge_buffer' = [i \in 1..n |-> 0]
    /\ UNCHANGED <<data, MULTI_WRITE, failAt, powerCut, shadow, stats, out, log>>

\* Storage::write of the adapter in use
AdapterWrite(offset, bytes) ==
    /\ pc = "adapter"
    /\ \E m \in {IF adapter = "Rmw"
                  THEN RmwWrite(Machine(data, merge_buffer), offset, bytes)
                  ELSE MultiwriteWrite(Machine(data, merge_buffer), offset, bytes)} :
          /\ data' = m.data
          /\ merge_buffer' = m.buf
          /\ log' = m.log
          /\ result' = m.res
    /\ pre' = data
    /\ op' = Operation("write", offset, Len(bytes), bytes)
    /\ pc' = "done"
    /\ UNCHANGED <<MULTI_WRITE, failAt, powerCut, shadow, stats, adapter, out>>

\* ReadStorage::read of the adapter in use
AdapterRead(offset, length) ==
    /\ pc = "adapter"
    /\ LET r == AdapterReadOp(Machine(data, merge_buffer), offset, length)
       IN /\ out' = r.bytes
          /\ log' = r.log
          /\ result' = r.res
    /\ pre' = data
    /\ op' = Operation("read", offset, length, <<>>)
    /\ pc' = "done"
    /\ UNCHANGED <<data, MULTI_WRITE, failAt, powerCut, shadow, stats, adapter, merge_buffer>>

\* MockFlash::read called directly
RawRead(offset, length) ==
    /\ pc \in {"device", "prepared"}
    /\ LET r == MockRead(data, offset, length)
       IN /\ out' = r.bytes
          /\ result' = r.res
    /\ pre' = data
    /\ op' = Operation("raw_read", offset, length, <<>>)
    /\ pc' = "done"
    /\ UNCHANGED <<data, MULTI_WRITE, failAt, powerCut, shadow, stats, adapter, merge_buffer, log>>

\* MockFlash::write called directly
RawWrite(offset, bytes) ==
    /\ pc \in {"device", "prepared"}
    /\ LET r == MockWrite(data, MULTI_WRITE, offset, bytes)
       IN /\ data' = r.data
          /\ result' = r.res
    /\ pre' = data
    /\ op' = Operation("raw_write", offset, Len(bytes), bytes)
    /\ pc' = "done"
    /\ UNCHANGED <<MULTI_WRITE, failAt, powerCut, shadow, stats, adapter, merge_buffer, out, log>>

\* MockFlash::erase called directly
RawErase(from, to) ==
    /\ pc \in {"device", "prepared"}
    /\ LET r == MockErase(data, from, to)
       IN /\ data' = r.data
          /\ result' = r.res
    /\ pre' = data
    /\ op' = Operation("raw_erase", from, to, <<>>)
    /\ pc' = "done"
    /\ UNCHANGED <<MULTI_WRITE, failAt, powerCut, shadow, stats, adapter, merge_buffer, out, log>>

\* RmwNorFlashStorage::write in a loop of writes that each return Ok, as in
\* test::not_aligned_write_rmw; the plain array takes the same bytes
SequenceWrite(offset, bytes) ==
    /\ pc = "adapter" /\ adapter = "Rmw" /\ result = "Ok"
    /\ \E m \in {RmwWrite(Machine(data, merge_buffer), offset, bytes)} :
          /\ data' = m.data
          /\ merge_buffer' = m.buf
          /\ result' = m.res
          /\ shadow' = IF m.res = "Ok"
                       THEN [a \in Addr |->
                               IF offset <= a /\ a < offset + Len(bytes)
                               THEN bytes[a - offset + 1] ELSE shadow[a]]
                       ELSE shadow
    /\ UNCHANGED <<MULTI_WRITE, failAt, powerCut, stats, adapter, pc, op, out, log, pre>>

\* the page sequence a write walks over a device of this capacity, with an
\* address to look up in it
PageWalk(capacity, address) ==
    /\ pc = "device"
    /\ op' = Operation("pages", capacity, address, <<>>)
    /\ out' = PagesOf(capacity)
    /\ pc' = "done"
    /\ UNCHANGED <<data, MULTI_WRITE, failAt, powerCut, shadow, stats, adapter, merge_buffer,
                   result, log, pre>>

\* the calls counted so far; a further call is made while they are fewer
\* than MaxCalls
Counted == stats.reads + stats.writes + stats.erases

\* NorFlashStats::read
StatsRead(offset, length) ==
    /\ pc = "device" /\ Counted < MaxCalls
    /\ \E r \in {MockRead(data, offset, length)} :
          /\ out' = r.bytes
          /\ result' = r.res
          /\ stats' = StatsAfterRead(stats, r.res, length)
    /\ op' = Operation("stats_read", offset, length, <<>>)
    /\ UNCHANGED <<data, MULTI_WRITE, failAt, powerCut, shadow, adapter, merge_buffer,
                   pc, log, pre>>

\* NorFlashStats::write
StatsWrite(offset, bytes) ==
    /\ pc = "device" /\ Counted < MaxCalls
    /\ \E r \in {MockWrite(data, MULTI_WRITE, offset, bytes)} :
          /\ data' = r.data
          /\ result' = r.res
          /\ stats' = StatsAfterWrite(stats, r.res, Len(bytes))
    /\ op' = Operation("stats_write", offset, Len(bytes), bytes)
    /\ UNCHANGED <<MULTI_WRITE, failAt, powerCut, shadow, adapter, merge_buffer,
                   pc, out, log, pre>>

\* NorFlashStats::erase
StatsErase(from, to) ==
    /\ pc = "device" /\ Counted < MaxCalls
    /\ \E r \in {MockErase(data, from, to)} :
          /\ data' = r.data
          /\ result' = r.res
          /\ stats' = StatsAfterErase(stats, r.res, from, to)
    /\ op' = Operation("stats_erase", from, to, <<>>)
    /\ UNCHANGED <<MULTI_WRITE, failAt, powerCut, shadow, adapter, merge_buffer,
                   pc, out, log, pre>>

\* the operations on an adapter, from the construction of the device on
NextAdapter ==
    \/ \E choice \in [0..(NumPages - 1) -> PagePatterns] : Fill(choice)
    \/ \E kind \in {"Rmw", "RmwMultiwrite"}, n \in BufLens : New(kind, n)
    \/ \E offset \in Offsets, pat \in ReqPatterns, n \in Lengths :
          AdapterWrite(offset, TestData(pat, n))
    \/ \E offset \in Offsets, length \in Lengths : AdapterRead(offset, length)

Next ==
    \/ NextAdapter
    \/ \E offset \in Offsets \cup {Huge}, length \in Lengths \cup {Huge} :
          RawRead(offset, length)
    \/ \E offset \in Offsets, pat \in ReqPatterns, n \in Lengths :
          RawWrite(offset, TestData(pat, n))
    \/ \E from \in Offsets, to \in Offsets : RawErase(from, to)

Spec == Init /\ [][Next]_vars

\* the adapters over a device that fails one call
SpecFault == InitFault /\ [][NextAdapter]_vars

\* TestFlash::default(): the erased device of the tests, without MULTI_WRITE
InitSequence == Init /\ ~MULTI_WRITE

\* a sequence of in-capacity writes through RmwNorFlashStorage, with a merge
\* buffer of one page, to a device that starts erased
NextSequence ==
    \/ New("Rmw", ERASE_SIZE)
    \/ \E offset \in Addr, pat \in SeqPatterns :
          \E n \in 0..Min(MaxLen, CAPACITY - offset) :
              SequenceWrite(offset, TestData(pat, n))

SpecSequence == InitSequence /\ [][NextSequence]_vars

\* the capacities of the devices whose pages are walked: whole numbers of
\* pages and capacities that end inside a page
Capacities == 0..((NumPages + 1) * ERASE_SIZE)

NextPages ==
    \E capacity \in Capacities : \E address \in 0..capacity :
        PageWalk(capacity, address)

SpecPages == Init /\ [][NextPages]_vars

\* the offsets and lengths of the calls on a NorFlashStats: aligned,
\* misaligned and out of bounds
StatsOffsets == {0, 1, ERASE_SIZE, CAPACITY}

StatsLengths == {0, 1, WRITE_SIZE, 2 * WRITE_SIZE}

\* sequences of calls on a NorFlashStats around a MockFlash
NextStats ==
    \/ \E offset \in StatsOffsets, length \in StatsLengths : StatsRead(offset, length)
    \/ \E offset \in StatsOffsets, n \in StatsLengths : StatsWrite(offset, TestData("low", n))
    \/ \E from \in StatsOffsets, to \in StatsOffsets : StatsErase(from, to)

SpecStats == Init /\ [][NextStats]_vars

\* the adapters over a device that loses power during the operation
SpecPower == InitPower /\ [][NextAdapter]_vars

\* ------------------------------------------------- vocabulary of the claims
\* the last operation was a write through the adapter of this kind
WroteThrough(kind) == pc = "done" /\ op.name = "write" /\ adapter = kind

\* the last operation was a read through the adapter of this kind
ReadThrough(kind) == pc = "done" /\ op.name = "read" /\ adapter = kind

\* address a lies in the range [offset, offset + len) the last operation named
Requested(a) == op.a <= a /\ a < op.a + op.b

\* the range the last operation named lies inside the device
InCapacity == op.a + op.b <= CAPACITY

\* the byte the last write asked for at address a
Wanted(a) == op.bytes[a - op.a + 1]

\* page i (0-based) intersects the requested range
Touched(i) ==
    Max(i * ERASE_SIZE, op.a) < Min((i + 1) * ERASE_SIZE, op.a + op.b)

PageIndexes == 0..(NumPages - 1)

PageOf(a) == a \div ERASE_SIZE

\* the calls of the log that address page i
CallsOn(i, name) == {k \in 1..Len(log) : log[k].call = name /\ PageOf(log[k].a) = i}

\* no device call failed on a page before page i: the write got to page i
Reached(i) == \A k \in 1..Len(log) : log[k].res # "Ok" => PageOf(log[k].a) >= i

\* the request's bytes for page i only clear bits of what the page held
Compatible(i) ==
    \A a \in Addr :
        (PageOf(a) = i /\ Requested(a)) => BitAnd(Wanted(a), pre[a]) = Wanted(a)

\* the log without the bytes written: (call, first argument, second argument, result)
Shape(e) == <<e.call, e.a, e.b, e.res>>

\* read, erase, write of every touched page from page i on, in ascending order
RECURSIVE ReadEraseWriteFrom(_)
ReadEraseWriteFrom(i) ==
    IF i >= NumPages THEN <<>>
    ELSE (IF Touched(i)
          THEN << <<"read", i * ERASE_SIZE, ERASE_SIZE, "Ok">>,
                  <<"erase", i * ERASE_SIZE, (i + 1) * ERASE_SIZE, "Ok">>,
                  <<"write", i * ERASE_SIZE, ERASE_SIZE, "Ok">> >>
          ELSE <<>>)
         \o ReadEraseWriteFrom(i + 1)

\* ----------------------------------------------------------------- claims
\* C1: a write through RmwNorFlashStorage over a non-multiwrite flash, of any
\* bytes at any offset with offset + len <= capacity, aligned or not, from any
\* device contents, returns Ok and leaves the bytes at [offset, offset + len).
C1_RmwWriteStoresBytes ==
    (WroteThrough("Rmw") /\ ~MULTI_WRITE /\ InCapacity) =>
        /\ result = "Ok"
        /\ \A a \in Addr : Requested(a) => data[a] = Wanted(a)

\* a misaligned write over both pages of a programmed device that changed it
C1_Witness ==
    /\ WroteThrough("Rmw") /\ ~MULTI_WRITE /\ InCapacity
    /\ op.a % WRITE_SIZE # 0 /\ op.b % WRITE_SIZE # 0
    /\ Touched(0) /\ Touched(1)
    /\ \A a \in Addr : pre[a] # ERASE_BYTE
    /\ \E a \in Addr : Requested(a) /\ data[a] # pre[a]
    /\ result = "Ok"

\* C2: after a successful RmwNorFlashStorage::write every device byte outside
\* [offset, offset + len) has the value it had before the write, in the
\* touched pages and in the others.
C2_RmwWritePreservesOthers ==
    (WroteThrough("Rmw") /\ result = "Ok") =>
        \A a \in Addr : ~Requested(a) => data[a] = pre[a]

\* a write inside page 0 that leaves programmed bytes before and after it in
\* the page, and a programmed page 1 it does not touch
C2_Witness ==
    /\ WroteThrough("Rmw") /\ result = "Ok"
    /\ Touched(0) /\ ~Touched(1)
    /\ op.a > 0 /\ op.a + op.b < ERASE_SIZE
    /\ \A a \in Addr : ~Requested(a) => pre[a] # ERASE_BYTE
    /\ \E a \in Addr : Requested(a) /\ data[a] # pre[a]

\* C3: for each page a multiwrite adapter write touches (and gets to): when
\* the request's bytes for the page only clear bits of the page, no erase and
\* exactly one device write for that page; otherwise exactly one erase of the
\* page and exactly one device write, of the full page.
C3_MultiwriteCallsPerPage ==
    WroteThrough("RmwMultiwrite") =>
        \A i \in PageIndexes : (Touched(i) /\ Reached(i)) =>
            IF Compatible(i)
            THEN /\ CallsOn(i, "erase") = {}
                 /\ Cardinality(CallsOn(i, "write")) = 1
            ELSE /\ Cardinality(CallsOn(i, "erase")) = 1
                 /\ Cardinality(CallsOn(i, "write")) = 1
                 /\ \A k \in CallsOn(i, "erase") :
                        log[k].a = i * ERASE_SIZE /\ log[k].b = (i + 1) * ERASE_SIZE
                 /\ \A k \in CallsOn(i, "write") :
                        log[k].a = i * ERASE_SIZE /\ log[k].b = ERASE_SIZE

\* C4: a multiwrite adapter write inside the capacity, over a multiwrite
\* flash, whose bytes only clear bits of every page it touches (the direct
\* path), succeeds, leaves the requested bytes at their addresses and every
\* other byte unchanged.
C4_DirectWriteStoresBytes ==
    (/\ WroteThrough("RmwMultiwrite") /\ MULTI_WRITE /\ InCapacity
     /\ \A i \in PageIndexes : Touched(i) => Compatible(i)) =>
        /\ result = "Ok"
        /\ \A a \in Addr : data[a] = IF Requested(a) THEN Wanted(a) ELSE pre[a]

\* C5: an adapter write with offset + len > capacity returns OutOfBounds and
\* issues no device read, erase or write.
C5_WriteBeyondCapacityRejected ==
    (pc = "done" /\ op.name = "write" /\ ~InCapacity) =>
        result = "OutOfBounds" /\ log = <<>>

\* C6: a read through RmwNorFlashStorage inside the capacity whose offset or
\* length is not a multiple of READ_SIZE returns Ok and the device bytes at
\* [offset, offset + len).
C6_MisalignedAdapterRead ==
    (/\ ReadThrough("Rmw") /\ InCapacity
     /\ (op.a % READ_SIZE # 0 \/ op.b % READ_SIZE # 0)) =>
        /\ result = "Ok"
        /\ out = [j \in 1..op.b |-> data[op.a + j - 1]]

\* C7: a read or write of the raw device inside the capacity whose offset or
\* length is not a multiple of READ_SIZE (read) or WRITE_SIZE (write) returns
\* NotAligned and leaves the device contents as they were.
C7_MisalignedRawRejected ==
    /\ (/\ pc = "done" /\ op.name = "raw_read" /\ InCapacity
        /\ (op.a % READ_SIZE # 0 \/ op.b % READ_SIZE # 0)) =>
           result = "NotAligned" /\ data = pre
    /\ (/\ pc = "done" /\ op.name = "raw_write" /\ InCapacity
        /\ (op.a % WRITE_SIZE # 0 \/ op.b % WRITE_SIZE # 0)) =>
           result = "NotAligned" /\ data = pre

\* a raw write of a misaligned length at an aligned offset, whose bytes the
\* multiwrite device would have taken
C7_Witness ==
    /\ pc = "done" /\ op.name = "raw_write" /\ InCapacity
    /\ op.a % WRITE_SIZE = 0 /\ op.b % WRITE_SIZE # 0
    /\ MULTI_WRITE
    /\ \E a \in Addr : Requested(a) /\ BitAnd(Wanted(a), pre[a]) # pre[a]
    /\ result = "NotAligned"

\* C8: a read or write of the raw device with offset + length > capacity
\* returns OutOfBounds, misaligned or not, and leaves the device contents as
\* they were; check_slice answers OutOfBounds exactly when offset + length >
\* capacity.
C8_OutOfBoundsRaw ==
    (pc = "done" /\ op.name \in {"raw_read", "raw_write"}) =>
        /\ ~InCapacity => (result = "OutOfBounds" /\ data = pre)
        /\ result = "OutOfBounds" <=> ~InCapacity

\* a raw write beyond the capacity whose offset and length are misaligned
C8_Witness ==
    /\ pc = "done" /\ op.name = "raw_write" /\ ~InCapacity
    /\ op.a < CAPACITY /\ op.b > 0
    /\ op.a % WRITE_SIZE # 0 /\ op.b % WRITE_SIZE # 0
    /\ result = "OutOfBounds"

\* C9: a successful RmwNorFlashStorage::write issues, for each page that
\* intersects [offset, offset + len) and for no other, read(page.start,
\* ERASE_SIZE), erase(page.start, page.end), write(page.start, ERASE_SIZE),
\* in this order and in ascending page order; a write of no bytes issues no call.
C9_RmwCallSequence ==
    (WroteThrough("Rmw") /\ result = "Ok") =>
        /\ [k \in 1..Len(log) |-> Shape(log[k])] = ReadEraseWriteFrom(0)
        /\ op.b = 0 => log = <<>>

\* a write of two bytes that straddles the two pages
C9_Witness ==
    /\ WroteThrough("Rmw") /\ result = "Ok"
    /\ op.b = 2 /\ Touched(0) /\ Touched(1)
    /\ Len(log) = 6

\* C10: when a device call fails during a write of either adapter, the write
\* returns that error, the failed call is the last one it issues, the pages
\* processed before it hold their new contents and the pages not reached
\* hold the contents they had.
C10_FirstErrorAborts ==
    (pc = "done" /\ op.name = "write" /\ result \notin {"Ok", "panic"}) =>
        /\ log # <<>>
        /\ log[Len(log)].res = result
        /\ \A k \in 1..(Len(log) - 1) : log[k].res = "Ok"
        /\ \A a \in Addr :
              /\ PageOf(a) > PageOf(log[Len(log)].a) => data[a] = pre[a]
              /\ PageOf(a) < PageOf(log[Len(log)].a) =>
                    data[a] = IF Requested(a) THEN Wanted(a) ELSE pre[a]

\* the device fails a call on page 1 after page 0 was rewritten
C10_Witness ==
    /\ pc = "done" /\ op.name = "write" /\ result = "Other"
    /\ Touched(0) /\ Touched(1)
    /\ PageOf(log[Len(log)].a) = 1
    /\ \E a \in Addr : PageOf(a) = 0 /\ data[a] # pre[a]

\* the last adapter write issued a device call on page i
Visited(i) == \E k \in 1..Len(log) : PageOf(log[k].a) = i

\* the last adapter write finished page i: its device write returned Ok
Completed(i) == \E k \in CallsOn(i, "write") : log[k].res = "Ok"

\* C11: when power is lost between two device calls of an adapter write,
\* every page the write has not got to holds the contents it had before the
\* write and every page whose sequence of calls has completed holds its final
\* merged contents; only the page being processed may differ from both.
C11_PowerLossOtherPages ==
    (pc = "done" /\ op.name = "write" /\ result = "power_loss") =>
        \A a \in Addr :
            /\ ~Visited(PageOf(a)) => data[a] = pre[a]
            /\ Completed(PageOf(a)) =>
                  data[a] = IF Requested(a) THEN Wanted(a) ELSE pre[a]

\* power is lost after the erase of page 1, page 0 having been rewritten
C11_Witness ==
    /\ WroteThrough("Rmw") /\ result = "power_loss"
    /\ Completed(0) /\ Visited(1) /\ ~Completed(1)
    /\ log[Len(log)].call = "erase"
    /\ \E a \in Addr : PageOf(a) = 0 /\ data[a] # pre[a]
    /\ \E a \in Addr : PageOf(a) = 1 /\ data[a] # pre[a] /\ ~Requested(a)

\* C12: from an erased device, after any sequence of successful writes
\* through RmwNorFlashStorage (overlapping, straddling pages, of any offset
\* and length) the device contents are those of a plain byte array, at first
\* all ERASE_BYTE, to which the same writes were applied as overwrites.
C12_SequenceMatchesPlainArray ==
    (adapter = "Rmw" /\ result = "Ok") => data = shadow

\* writes have covered the whole device and a later one has put the bytes
\* on both sides of the page boundary back to the erased state
C12_Witness ==
    /\ adapter = "Rmw" /\ result = "Ok"
    /\ data = shadow
    /\ \A a \in Addr :
          data[a] = IF a \in {ERASE_SIZE - 1, ERASE_SIZE} THEN ERASE_BYTE ELSE 15

\* ------------------------------------------------- the decomposition of a write
\* what a write through an adapter iterates over
Triples == Overlaps(Pages, op.bytes, op.a)

Intersects(p) == Max(p.start, op.a) < Min(PageEnd(p), op.a + op.b)

RECURSIVE SliceConcat(_, _)
SliceConcat(t, k) == IF k > Len(t) THEN <<>> ELSE t[k].data \o SliceConcat(t, k + 1)

\* one triple for each page the request intersects and none for another, in
\* ascending page order, each with addr = max(offset, page.start) and the
\* part of bytes inside the page
TriplesPerPage ==
    /\ \A i \in 1..Len(Pages) :
          Cardinality({k \in 1..Len(Triples) : Triples[k].page = Pages[i]})
              = IF Intersects(Pages[i]) THEN 1 ELSE 0
    /\ \A k \in 1..Len(Triples) :
          /\ \E i \in 1..Len(Pages) : Triples[k].page = Pages[i]
          /\ k < Len(Triples) => Triples[k].page.start < Triples[k + 1].page.start
          /\ Triples[k].addr = Max(op.a, Triples[k].page.start)
          /\ Len(Triples[k].data)
                = Min(PageEnd(Triples[k].page), op.a + op.b) - Triples[k].addr
          /\ \A j \in 1..Len(Triples[k].data) :
                Triples[k].data[j] = op.bytes[Triples[k].addr - op.a + j]

DeviceRead ==
    IF failAt = 1
    THEN [res |-> "Other", bytes |-> <<>>]
    ELSE MockRead(pre, op.a, op.b)

ErasedRaw == pc = "done" /\ op.name = "raw_erase"

\* address a lies in the range [from, to) the last erase named
InErased(a) == op.a <= a /\ a < op.b

\* C15: erase(from, to) on the raw device returns OutOfBounds when from > to
\* or to > capacity, and otherwise NotAligned when from or to is not a
\* multiple of ERASE_SIZE; an erase that fails leaves the contents unchanged.
C15_EraseValidation ==
    ErasedRaw =>
        /\ (op.a > op.b \/ op.b > CAPACITY) => result = "OutOfBounds"
        /\ (/\ op.a <= op.b /\ op.b <= CAPACITY
            /\ (op.a % ERASE_SIZE # 0 \/ op.b % ERASE_SIZE # 0)) => result = "NotAligned"
        /\ result # "Ok" => data = pre

\* a reversed and misaligned range over programmed bytes: OutOfBounds goes
\* before NotAligned
C15_Witness ==
    /\ ErasedRaw
    /\ op.a > op.b /\ op.a <= CAPACITY
    /\ op.a % ERASE_SIZE # 0 /\ op.b % ERASE_SIZE # 0
    /\ \E a \in Addr : pre[a] # ERASE_BYTE
    /\ result = "OutOfBounds"

\* C16: a successful erase(from, to) leaves every byte of [from, to) at
\* ERASE_BYTE and every other byte as it was; an erase of a range that is
\* already erased succeeds and changes no byte, and so does the same erase
\* repeated.
C16_EraseEffect ==
    ErasedRaw =>
        /\ result = "Ok" =>
              /\ \A a \in Addr :
                    data[a] = IF InErased(a) THEN ERASE_BYTE ELSE pre[a]
              /\ MockErase(data, op.a, op.b) = [res |-> "Ok", data |-> data]
        /\ (/\ check_erase(op.a, op.b) = "Ok"
            /\ \A a \in Addr : InErased(a) => pre[a] = ERASE_BYTE) =>
              result = "Ok" /\ data = pre

\* the erase of the first page, which was programmed, beside a programmed
\* second page
C16_Witness ==
    /\ ErasedRaw /\ result = "Ok"
    /\ op.a = 0 /\ op.b = ERASE_SIZE
    /\ \E a \in Addr : InErased(a) /\ pre[a] # ERASE_BYTE
    /\ \E a \in Addr : ~InErased(a) /\ data[a] # ERASE_BYTE
    /\ \A a \in Addr : InErased(a) => data[a] = ERASE_BYTE

\* -------------------------------------------------------- the raw write
\* the last operation was a write to the raw device that check_write accepts
WroteRawValid ==
    /\ pc = "done" /\ op.name = "raw_write"
    /\ InCapacity /\ op.a % WRITE_SIZE = 0 /\ op.b % WRITE_SIZE = 0

\* C17: on a MockFlash with MULTI_WRITE every aligned write within capacity
\* returns Ok, whatever the contents, and leaves each written byte at the AND
\* of its previous value and the byte written. Violated: the write returns
\* DirtyWrite at the first byte that has a bit the device byte lacks.
C17_MultiwriteAccepted ==
    (WroteRawValid /\ MULTI_WRITE) =>
        /\ result = "Ok"
        /\ \A a \in Addr : Requested(a) => data[a] = BitAnd(pre[a], Wanted(a))

\* C18: on a MockFlash without MULTI_WRITE an aligned write within capacity
\* of at least one byte returns DirtyWrite when some byte of its range is
\* not ERASE_BYTE; when the whole range is erased it returns Ok, stores the
\* bytes as given and changes nothing else.
C18_DirtyWriteRejected ==
    (WroteRawValid /\ ~MULTI_WRITE /\ op.b > 0) =>
        /\ (\E a \in Addr : Requested(a) /\ pre[a] # ERASE_BYTE) =>
              result = "DirtyWrite"
        /\ (\A a \in Addr : Requested(a) => pre[a] = ERASE_BYTE) =>
              /\ result = "Ok"
              /\ \A a \in Addr :
                    data[a] = IF Requested(a) THEN Wanted(a) ELSE pre[a]

\* a write over a range whose first byte is erased, and is written, and a
\* later one is not
C18_Witness ==
    /\ WroteRawValid /\ ~MULTI_WRITE /\ op.b > 0
    /\ pre[op.a] = ERASE_BYTE
    /\ \E a \in Addr : Requested(a) /\ pre[a] # ERASE_BYTE
    /\ data[op.a] = Wanted(op.a) /\ data[op.a] # pre[op.a]
    /\ result = "DirtyWrite"

\* C19: the construction of either adapter with a merge buffer shorter than
\* ERASE_SIZE panics and yields no adapter, so that no adapter ever works on
\* a shorter buffer; with a buffer of ERASE_SIZE bytes or more it yields the
\* adapter, makes no device call and leaves the device contents as they were.
C19_ConstructionPrecondition ==
    /\ op.name = "new" =>
          /\ op.a < ERASE_SIZE =>
                pc = "panic" /\ result = "panic" /\ adapter = "none"
          /\ op.a >= ERASE_SIZE =>
                /\ pc = "adapter" /\ result = "Ok"
                /\ adapter \in {"Rmw", "RmwMultiwrite"}
                /\ Len(merge_buffer) = op.a
          /\ log = <<>> /\ data = pre
    /\ adapter # "none" => Len(merge_buffer) >= ERASE_SIZE
    /\ op.name \in {"write", "read"} => adapter # "none"

\* the multiwrite adapter refused over a programmed device for a buffer one
\* byte short
C19_Witness ==
    /\ op.name = "new" /\ op.a = ERASE_SIZE - 1
    /\ MULTI_WRITE
    /\ \E a \in Addr : data[a] # ERASE_BYTE
    /\ pc = "panic" /\ adapter = "none"

\* C20: every device write of the direct path of RmwMultiwriteNorFlashStorage
\* has an offset and a length that are multiples of WRITE_SIZE, covers the
\* requested bytes of its page, stays inside the page, and carries ERASE_BYTE
\* wherever it does not carry a requested byte. Violated: the padded length
\* is len % WRITE_SIZE + offset + len, which is not a multiple of WRITE_SIZE
\* for a misaligned addr and can run beyond the end of the page.
C20_DirectWritePadded ==
    WroteThrough("RmwMultiwrite") =>
        \A i \in PageIndexes : (Touched(i) /\ Compatible(i)) =>
            \A k \in CallsOn(i, "write") :
                LET e == log[k]
                    lo == Max(op.a, i * ERASE_SIZE)
                    hi == Min(op.a + op.b, (i + 1) * ERASE_SIZE)
                IN /\ e.a % WRITE_SIZE = 0 /\ e.b % WRITE_SIZE = 0
                   /\ e.a <= lo /\ hi <= e.a + e.b
                   /\ i * ERASE_SIZE <= e.a /\ e.a + e.b <= (i + 1) * ERASE_SIZE
                   /\ \A j \in 1..e.b :
                         (e.a + j - 1 < lo \/ e.a + j - 1 >= hi) =>
                             e.bytes[j] = ERASE_BYTE

\* C21: with a merge buffer of exactly ERASE_SIZE bytes no write within
\* capacity through either adapter takes a slice of the merge buffer beyond
\* its end, so the write never panics. Violated: the direct path of
\* RmwMultiwriteNorFlashStorage takes merge_buffer[..aligned_end] with
\* aligned_end = len % WRITE_SIZE + offset + len, which exceeds ERASE_SIZE
\* for a misaligned request that reaches the end of the page.
C21_WriteNeverPanics ==
    (/\ pc = "done" /\ op.name = "write" /\ InCapacity
     /\ Len(merge_buffer) = ERASE_SIZE) =>
        result # "panic"

\* ------------------------------------------------------ the page sequence
\* the pages walked that contain the address looked up
Containing == {i \in 1..Len(out) : PageContains(out[i], op.b)}

\* page i covers [i*ERASE_SIZE, (i+1)*ERASE_SIZE), the pages follow one
\* another without gap or overlap and lie inside the capacity, and contains
\* is start <= a < end
PagesInOrder ==
    /\ Len(out) = op.a \div ERASE_SIZE
    /\ \A i \in 1..Len(out) :
          /\ out[i].start = (i - 1) * ERASE_SIZE
          /\ PageEnd(out[i]) = i * ERASE_SIZE
          /\ 0 <= out[i].start /\ out[i].start < PageEnd(out[i])
          /\ PageEnd(out[i]) <= op.a
          /\ i < Len(out) => PageEnd(out[i]) = out[i + 1].start
          /\ PageContains(out[i], op.b)
                <=> (out[i].start <= op.b /\ op.b < PageEnd(out[i]))

\* C22 as stated: the page sequence of a write has capacity / ERASE_SIZE
\* pages as PagesInOrder says, and every address below the capacity is in
\* exactly one page. Violated: with a capacity that is not a multiple of
\* ERASE_SIZE the addresses after the last whole page are in no page.
C22_PagesTileDevice ==
    (pc = "done" /\ op.name = "pages") =>
        /\ PagesInOrder
        /\ op.b < op.a => Cardinality(Containing) = 1

\* C22, amended: the page sequence of a write has capacity / ERASE_SIZE pages
\* as PagesInOrder says; every address below capacity - capacity % ERASE_SIZE
\* is in exactly one page and every other address is in none, so the pages
\* tile the device exactly when the capacity is a multiple of ERASE_SIZE.
C22_PagesTileWholePages ==
    (pc = "done" /\ op.name = "pages") =>
        /\ PagesInOrder
        /\ Cardinality(Containing)
              = IF op.b < op.a - (op.a % ERASE_SIZE) THEN 1 ELSE 0

\* the first address of the last of several pages of a device of whole pages
C22_Witness ==
    /\ pc = "done" /\ op.name = "pages"
    /\ op.a % ERASE_SIZE = 0 /\ Len(out) >= 2
    /\ op.b = out[Len(out)].start
    /\ Containing = {Len(out)}

\* ------------------------------------------------- the NorFlashStats counters
StatsFields == {"reads", "read", "writes", "written", "erases", "erased"}

\* the counter of calls and the counter of units of a call of this name
OwnCalls(name) ==
    CASE name = "stats_read" -> "reads"
      [] name = "stats_write" -> "writes"
      [] OTHER -> "erases"

OwnUnits(name) ==
    CASE name = "stats_read" -> "read"
      [] name = "stats_write" -> "written"
      [] OTHER -> "erased"

\* the units of a call: len / READ_SIZE, len / WRITE_SIZE, (to - from) / ERASE_SIZE
Units(o) ==
    CASE o.name = "stats_read" -> o.b \div READ_SIZE
      [] o.name = "stats_write" -> o.b \div WRITE_SIZE
      [] OTHER -> (o.b - o.a) \div ERASE_SIZE

\* C23: every call on a NorFlashStats that the wrapped device fails leaves
\* the six counters as they were, and every call that succeeds adds 1 to the
\* counter of calls of its operation and its number of units to the counter
\* of units of its operation, and leaves the other four counters as they were.
C23_StatsCountSuccesses ==
    [][op'.name \in {"stats_read", "stats_write", "stats_erase"} =>
          IF result' # "Ok"
          THEN stats' = stats
          ELSE \A f \in StatsFields :
                  stats'[f] = stats[f]
                      + (IF f = OwnCalls(op'.name) THEN 1 ELSE 0)
                      + (IF f = OwnUnits(op'.name) THEN Units(op') ELSE 0)]_vars

\* a write the device refused as dirty, after a read and a write of two
\* words each were counted
C23_Witness ==
    /\ op.name = "stats_write" /\ result = "DirtyWrite"
    /\ stats = [reads |-> 1, read |-> 2, writes |-> 1, written |-> 2,
                erases |-> 0, erased |-> 0]
    /\ \E a \in Addr : data[a] # ERASE_BYTE

====
